---- MODULE Spec2Model ----
(***************************************************************************)
(* Model of cord19q's level-of-evidence classifier,                        *)
(* src/python/cord19q/etl/loe.py (class LOE and the module function regex).*)
(*                                                                         *)
(* Strings.  A Python string is modelled as a sequence of tokens.  A token *)
(* is either a run of word characters ("cohort", "s", "method") or one     *)
(* non-word character (" ", "-", "\n").  Two adjacent word tokens stand    *)
(* for their concatenation ("result" followed by "s" is "results"), so     *)
(* there is no word boundary between them.  The empty string is << >>.     *)
(* Substring search is contiguous-subsequence search, which is exact for   *)
(* the token alphabet used here because no keyword straddles a token.      *)
(*                                                                         *)
(* None.  An optional value is a set with at most one element: None is {}  *)
(* and a present value v is {v}.                                           *)
(***************************************************************************)
EXTENDS Naturals, Sequences, FiniteSets

VARIABLES
    sections,   \* the argument of LOE.label: a sequence of [name, text] records
    pc,         \* position in label: "title", "gate", "text", "score", "fallback",
                \* "done" (label returned) or "raised" (str.join raised TypeError)
    title,      \* the local title: normalised text of the title sections
    text,       \* the local text: normalised text of the scored sections
    raw,        \* the local matches as first built: one (count, keywords) per category
    scores,     \* the local matches after the per-category minimums
    label,      \* the local label, a (level, keywords) tuple; the result once pc = "done"
    trail       \* the stages executed so far, in order

vars == <<sections, pc, title, text, raw, scores, label, trail>>

-----------------------------------------------------------------------------
(* Optional values and Python truthiness *)

None == {}

Some(v) == {v}

Val(o) == CHOOSE v \in o : TRUE

\* truthiness of an optional string: neither None nor ""
Truthy(o) == o # None /\ Val(o) # << >>

\* truthiness of a tuple: a tuple is false only when it is empty
TupleTruthy(t) == Len(t) # 0

-----------------------------------------------------------------------------
(* String primitives *)

NonWord == {" ", "-", "\n"}

\* str.lower(), token by token
LowerTok(t) ==
    CASE t = "Title" -> "title"
      [] t = "Computer" -> "computer"
      [] t = "Method" -> "method"
      [] t = "Discussion" -> "discussion"
      [] OTHER -> t

Lower(s) == [i \in 1..Len(s) |-> LowerTok(s[i])]

\* str.replace("\n", " ")
ReplaceNewline(s) == [i \in 1..Len(s) |-> IF s[i] = "\n" THEN " " ELSE s[i]]

\* " ".join(list) for a list of strings
RECURSIVE Join(_)
Join(list) ==
    IF Len(list) = 0 THEN << >>
    ELSE IF Len(list) = 1 THEN list[1]
    ELSE list[1] \o <<" ">> \o Join(Tail(list))

\* token in s  (substring test)
Contains(s, tok) ==
    \E i \in 1..Len(s) : i + Len(tok) - 1 <= Len(s) /\ SubSeq(s, i, i + Len(tok) - 1) = tok

\* is position k of s a word character
IsWordAt(s, k) == k \in 1..Len(s) /\ s[k] \notin NonWord

\* \b between positions k and k+1 of s (k = 0 is the start, k = Len(s) the end)
Boundary(s, k) == IsWordAt(s, k) # IsWordAt(s, k + 1)

-----------------------------------------------------------------------------
(* Regular expressions.  A pattern is a sequence of alternatives tried in  *)
(* order; an alternative is a literal token string, wrapped in \b on both  *)
(* sides when wb is TRUE.  The empty pattern "" is << >>.                  *)

Alt(toks, wb) == [toks |-> toks, wb |-> wb]

\* regex(terms): "|".join(r"\b%s\b" % re.escape(term.lower()))
regex(terms) == [i \in 1..Len(terms) |-> Alt(Lower(terms[i]), TRUE)]

\* does alternative alt match s starting at position i
AltMatchesAt(alt, s, i) ==
    LET n == Len(alt.toks) IN
    /\ n > 0
    /\ i + n - 1 <= Len(s)
    /\ SubSeq(s, i, i + n - 1) = alt.toks
    /\ alt.wb => (Boundary(s, i - 1) /\ Boundary(s, i + n - 1))

\* index of the first alternative of pat that matches at position i, 0 if none
FirstAlt(pat, s, i) ==
    IF \E k \in 1..Len(pat) : AltMatchesAt(pat[k], s, i)
    THEN CHOOSE k \in 1..Len(pat) :
           /\ AltMatchesAt(pat[k], s, i)
           /\ \A j \in 1..(k - 1) : ~AltMatchesAt(pat[j], s, i)
    ELSE 0

\* re.findall(pat, s, overlapped=True): one attempt per start position, in order
RECURSIVE FindAllFrom(_, _, _)
FindAllFrom(pat, s, i) ==
    IF i > Len(s) THEN << >>
    ELSE LET k == FirstAlt(pat, s, i) IN
         (IF k = 0 THEN << >> ELSE <<pat[k].toks>>) \o FindAllFrom(pat, s, i + 1)

FindAll(pat, s) == FindAllFrom(pat, s, 1)

-----------------------------------------------------------------------------
(* collections.Counter and sorted *)

Occurrences(ms, key) == Cardinality({i \in 1..Len(ms) : ms[i] = key})

\* Counter(ms).items(): distinct keys in first-seen order, each with its count
RECURSIVE CounterItems(_, _)
CounterItems(ms, i) ==
    IF i > Len(ms) THEN << >>
    ELSE (IF \E j \in 1..(i - 1) : ms[j] = ms[i]
          THEN << >>
          ELSE << <<ms[i], Occurrences(ms, ms[i])>> >>) \o CounterItems(ms, i + 1)

RemoveAt(seq, i) == SubSeq(seq, 1, i - 1) \o SubSeq(seq, i + 1, Len(seq))

\* faulty variant: the counts are left in first-seen order
SortedByCount_Unsorted(items) == items

\* sorted(items, key=lambda x: x[1], reverse=True): stable, descending by count
RECURSIVE SortedByCount(_)
SortedByCount(items) ==
    IF Len(items) = 0 THEN << >>
    ELSE LET i == CHOOSE i \in 1..Len(items) :
                    /\ \A j \in 1..Len(items) : items[j][2] <= items[i][2]
                    /\ \A j \in 1..(i - 1) : items[j][2] < items[i][2]
         IN <<items[i]>> \o SortedByCount(RemoveAt(items, i))

-----------------------------------------------------------------------------
(* LOE.matches.  The keyword match string "'key': n, 'key2': m" is kept as *)
(* the sequence of <<key, n>> pairs it renders; a present string is never  *)
(* empty because it is only built from a non-empty list of matches.        *)

NoMatch == <<0, None>>

matches(keywords, s) ==
    IF keywords # << >>
    THEN LET found == FindAll(keywords, s) IN
         IF found # << >>
         THEN <<Len(found), Some(SortedByCount(CounterItems(found, 1)))>>
         ELSE NoMatch
    ELSE NoMatch

-----------------------------------------------------------------------------
(* Vocabulary term lists (module vocab, class Vocab).  One or two          *)
(* representative terms per list.                                          *)

SYSTEMATIC_REVIEW == << <<"systematic", " ", "review">>, <<"meta", "-", "analysis">> >>

RANDOMIZED_CONTROL_TRIAL == << <<"randomized">> >>

PSEUDO_RANDOMIZED_CONTROL_TRIAL == << <<"pseudo", "-", "randomized">> >>

GENERIC_L3 == << <<"cohort">> >>

RETROSPECTIVE_COHORT == << <<"retrospective", " ", "cohort">> >>

GENERIC_CASE_CONTROL == << <<"case", " ", "control">> >>

MATCHED_CASE_CONTROL == << <<"matched">> >>

CROSS_SECTIONAL_CASE_CONTROL == << <<"cross", "-", "sectional">> >>

TIME_SERIES_ANALYSIS == << <<"time", " ", "series">> >>

PREVALENCE_STUDY == << <<"prevalence">> >>

COMPUTER_MODEL == << <<"computer", " ", "model">>, <<"simulation">> >>

-----------------------------------------------------------------------------
(* Class constants of LOE *)

SYSTEMATIC_REVIEW_REGEX == regex(SYSTEMATIC_REVIEW)

RANDOMIZED_CONTROL_TRIAL_REGEX == regex(RANDOMIZED_CONTROL_TRIAL)

PSEUDO_RANDOMIZED_CONTROL_TRIAL_REGEX == regex(PSEUDO_RANDOMIZED_CONTROL_TRIAL)

RETROSPECTIVE_COHORT_REGEX == regex(GENERIC_L3 \o RETROSPECTIVE_COHORT)

MATCHED_CASE_CONTROL_REGEX == regex(GENERIC_L3 \o GENERIC_CASE_CONTROL \o MATCHED_CASE_CONTROL)

CROSS_SECTIONAL_CASE_CONTROL_REGEX ==
    regex(GENERIC_L3 \o GENERIC_CASE_CONTROL \o CROSS_SECTIONAL_CASE_CONTROL)

TIME_SERIES_ANALYSIS_REGEX == regex(TIME_SERIES_ANALYSIS)

PREVALENCE_STUDY_REGEX == regex(PREVALENCE_STUDY)

COMPUTER_MODEL_REGEX == regex(COMPUTER_MODEL)

\* x\-?y: the greedy optional hyphen is tried first, then its absence
OptionalHyphen(x, y) == <<Alt(<<x, "-", y>>, TRUE), Alt(<<x, y>>, TRUE)>>

\* (pattern, loe) pairs, in the order they are tried
TITLE_REGEX ==
    << <<regex(<< <<"systematic", " ", "review">>, <<"meta", "-", "analysis">> >>), 1>>,
       <<regex(<< <<"randomized", " ", "control">> >>), 2>>,
       <<regex(<< <<"pseudo", "-", "randomized">> >>), 3>>,
       <<regex(<< <<"retrospective", " ", "cohort">> >>), 4>>,
       <<regex(<< <<"matched", " ", "case">> >>), 5>>,
       <<OptionalHyphen("cross", "sectional"), 6>>,
       <<OptionalHyphen("time", "series"), 7>>,
       <<regex(<< <<"prevalence">> >>), 8>> >>

\* (pattern, minimum) pairs
CATEGORIES ==
    << <<COMPUTER_MODEL_REGEX, 1>>, <<PREVALENCE_STUDY_REGEX, 1>>,
       <<TIME_SERIES_ANALYSIS_REGEX, 2>>, <<CROSS_SECTIONAL_CASE_CONTROL_REGEX, 2>>,
       <<MATCHED_CASE_CONTROL_REGEX, 2>>, <<RETROSPECTIVE_COHORT_REGEX, 2>>,
       <<PSEUDO_RANDOMIZED_CONTROL_TRIAL_REGEX, 3>>, <<RANDOMIZED_CONTROL_TRIAL_REGEX, 3>>,
       <<SYSTEMATIC_REVIEW_REGEX, 4>> >>

\* r"mathematical|computer|forecast": no word boundaries
FALLBACK_REGEX ==
    <<Alt(<<"mathematical">>, FALSE), Alt(<<"computer">>, FALSE), Alt(<<"forecast">>, FALSE)>>

-----------------------------------------------------------------------------
(* LOE.find, LOE.accept, LOE.filter, LOE.top.  A section is a record       *)
(* [name, text] of optional strings; the third tuple field is never read.  *)

find(section, token) ==
    \/ (Truthy(section.name) /\ Contains(Lower(Val(section.name)), token))
    \/ (Truthy(section.text) /\ Contains(Lower(Val(section.text)), token))

\* (?<!.*?results.*?) at position i: some "results" ends before i with no
\* newline between it and i ("." does not match a newline)
ResultsBehind(name, i) ==
    \E j \in 1..(i - 2) :
        /\ name[j] = "result"
        /\ name[j + 1] = "s"
        /\ \A k \in (j + 2)..(i - 1) : name[k] # "\n"

\* faulty variant: the lookbehind dropped, every "discussion" is rejected
filter_NoLookbehind(name) ==
    ~ \E i \in 1..Len(name) :
        name[i] \in {"introduction", "discussion", "background", "reference"}

\* not re.search(r"introduction|(?<!.*?results.*?)discussion|background|reference", name)
filter(name) ==
    ~ \E i \in 1..Len(name) :
        \/ name[i] = "introduction"
        \/ (name[i] = "discussion" /\ ~ResultsBehind(name, i))
        \/ name[i] = "background"
        \/ name[i] = "reference"

\* faulty variant: all() in place of any()
accept_All(secs) ==
    \A i \in 1..Len(secs) : find(secs[i], <<"method">>) \/ find(secs[i], <<"result">>)

\* faulty variant: the gate looks only at the sections that are scored
accept_EligibleOnly(secs) ==
    \E i \in 1..Len(secs) :
        /\ ~Truthy(secs[i].name) \/ filter(Lower(Val(secs[i].name)))
        /\ find(secs[i], <<"method">>) \/ find(secs[i], <<"result">>)

accept(secs) ==
    \E i \in 1..Len(secs) : find(secs[i], <<"method">>) \/ find(secs[i], <<"result">>)

Max(S) == CHOOSE m \in S : \A n \in S : n <= m

\* faulty variant: the "if best:" test dropped
top_NoZeroCheck(ms) ==
    LET counts == [i \in 1..Len(ms) |-> ms[i][1]]
        best == Max({counts[i] : i \in 1..Len(ms)})
        index == CHOOSE i \in 1..Len(ms) :
                    counts[i] = best /\ \A j \in 1..(i - 1) : counts[j] # best
    IN <<Len(ms) - (index - 1), ms[index][2]>>

\* faulty variant: the last category attaining the maximum wins
top_LastIndex(ms) ==
    LET counts == [i \in 1..Len(ms) |-> ms[i][1]]
        best == Max({counts[i] : i \in 1..Len(ms)})
    IN IF best # 0
       THEN LET index == CHOOSE i \in 1..Len(ms) :
                            counts[i] = best /\ \A j \in (i + 1)..Len(ms) : counts[j] # best
            IN <<Len(ms) - (index - 1), ms[index][2]>>
       ELSE <<0, None>>

\* index(best) is zero-based in the source; sequences here are one-based
top(ms) ==
    LET counts == [i \in 1..Len(ms) |-> ms[i][1]]
        best == Max({counts[i] : i \in 1..Len(ms)})
    IN IF best # 0
       THEN LET index == CHOOSE i \in 1..Len(ms) :
                            counts[i] = best /\ \A j \in 1..(i - 1) : counts[j] # best
            IN <<Len(ms) - (index - 1), ms[index][2]>>
       ELSE <<0, None>>

-----------------------------------------------------------------------------
(* Inputs *)

Section(name, txt) == [name |-> name, text |-> txt]

\* all sequences of at most n elements of S
SeqsUpTo(S, n) == UNION {[1..k -> S] : k \in 0..n}

RECURSIVE Flatten(_)
Flatten(parts) == IF Len(parts) = 0 THEN << >> ELSE parts[1] \o Flatten(Tail(parts))

\* Articles of at most MaxSections sections drawn from Names x Texts
MaxSections == 2

Names ==
    { None,
      Some(<< >>),
      Some(<<"Title">>),
      Some(<<"method", "s">>),
      Some(<<"introduction">>) }

Texts ==
    { None,
      Some(<< >>),
      Some(<<"method", "s">>),
      Some(<<"computer", " ", "model">>),
      Some(<<"Computer", "ized", " ", "forecast">>),
      Some(<<"matched">>),
      Some(<<"retrospective", "\n", "cohort">>),
      Some(<<"systematic", " ", "review", " ", "meta", "-", "analysis", " ",
             "randomized", " ", "control">>),
      Some(<<"pseudo", "-", "randomized", " ", "control">>),
      Some(<<"prevalence", " ", "result">>) }

Articles == SeqsUpTo({Section(n, t) : n \in Names, t \in Texts}, MaxSections)

\* Section names built from at most MaxNameParts parts, for the section filter
MaxNameParts == 3

NameParts ==
    { <<"result", "s">>, <<"discussion">>, <<"Discussion">>, <<" ", "and", " ">>,
      <<"introduction">>, <<"background">>, <<"reference", "s">>, <<"\n">>, <<"appendix">> }

NameStrings == {Flatten(parts) : parts \in SeqsUpTo(NameParts, MaxNameParts)}

NamedArticles ==
    { <<Section(Some(n), Some(<<"method", " ", "cohort", " ", "cohort">>))>> \o rest :
        n \in NameStrings,
        rest \in { << >>, <<Section(None, Some(<<"prevalence">>))>> } }

\* Texts of at most MaxTextLen tokens, for the match counter
MaxTextLen == 5

TextTokens == {" ", "cohort", "retrospective", "case", "control"}

TextArticles ==
    { <<Section(None, Some(t)), Section(Some(<<"method", "s">>), Some(<< >>))>> :
        t \in SeqsUpTo(TextTokens, MaxTextLen) }

-----------------------------------------------------------------------------
(* LOE.label, one action per stage *)

\* [text for name, text, _ in sections if name and name.lower() == "title"]
IsTitle(section) == Truthy(section.name) /\ Lower(Val(section.name)) = <<"title">>

\* [text for name, text, _ in sections if not name or LOE.filter(name.lower())]
IsScored(section) == ~Truthy(section.name) \/ filter(Lower(Val(section.name)))

\* the texts of the sections whose index is in keep, in input order
RECURSIVE TextsAt(_, _, _)
TextsAt(secs, keep, i) ==
    IF i > Len(secs) THEN << >>
    ELSE (IF i \in keep THEN <<secs[i].text>> ELSE << >>) \o TextsAt(secs, keep, i + 1)

TitleTexts(secs) == TextsAt(secs, {i \in 1..Len(secs) : IsTitle(secs[i])}, 1)

ScoringTexts(secs) == TextsAt(secs, {i \in 1..Len(secs) : IsScored(secs[i])}, 1)

\* " ".join raises TypeError on a None item
JoinRaises(list) == \E i \in 1..Len(list) : list[i] = None

\* " ".join(list).replace("\n", " ").lower()
Normalise(list) == Lower(ReplaceNewline(Join([i \in 1..Len(list) |-> Val(list[i])])))

\* the title patterns that match, by position in TITLE_REGEX
TitleHits(t) == {k \in 1..Len(TITLE_REGEX) : matches(TITLE_REGEX[k][1], t)[1] # 0}

\* faulty variant: the last matching entry wins
FirstTitleHit_Last(t) == CHOOSE k \in TitleHits(t) : \A j \in TitleHits(t) : j <= k

\* for regex, loe in LOE.TITLE_REGEX: the first entry with a match
FirstTitleHit(t) == CHOOSE k \in TitleHits(t) : \A j \in TitleHits(t) : k <= j

\* [LOE.matches(keywords, text) + (minimum, ) for keywords, minimum in LOE.CATEGORIES]
RawScores(t) == [k \in 1..Len(CATEGORIES) |-> matches(CATEGORIES[k][1], t)]

\* faulty variant: count > minimum
Threshold_Strict(m, minimum) == IF m[1] > minimum THEN m ELSE <<0, None>>

\* (count, keywords) if count >= minimum else (0, None)
Threshold(m, minimum) == IF m[1] >= minimum THEN m ELSE <<0, None>>

Thresholded(rs) == [k \in 1..Len(rs) |-> Threshold(rs[k], CATEGORIES[k][2])]

\* "if not label:" where label is a (level, keywords) tuple
NoLabelYet(lbl) == ~TupleTruthy(lbl)

Start(articles) ==
    /\ sections \in articles
    /\ pc = "title"
    /\ title = << >>
    /\ text = << >>
    /\ raw = << >>
    /\ scores = << >>
    /\ label = <<0, None>>
    /\ trail = << >>

Init == Start(Articles)

InitNames == Start(NamedArticles)

InitTexts == Start(TextArticles)

TitleStage ==
    /\ pc = "title"
    /\ trail' = Append(trail, "title")
    /\ IF JoinRaises(TitleTexts(sections))
       THEN /\ pc' = "raised"
            /\ UNCHANGED <<title, label>>
       ELSE LET t == Normalise(TitleTexts(sections)) IN
            /\ title' = t
            /\ IF TitleHits(t) # {}
               THEN LET k == FirstTitleHit(t) IN
                    /\ label' = <<TITLE_REGEX[k][2], matches(TITLE_REGEX[k][1], t)[2]>>
                    /\ pc' = "done"
               ELSE /\ pc' = "gate"
                    /\ UNCHANGED label
    /\ UNCHANGED <<sections, text, raw, scores>>

Gate ==
    /\ pc = "gate"
    /\ trail' = Append(trail, "gate")
    /\ pc' = IF accept(sections) THEN "text" ELSE "fallback"
    /\ UNCHANGED <<sections, title, text, raw, scores, label>>

BuildText ==
    /\ pc = "text"
    /\ trail' = Append(trail, "text")
    /\ IF JoinRaises(ScoringTexts(sections))
       THEN /\ pc' = "raised"
            /\ UNCHANGED text
       ELSE /\ text' = Normalise(ScoringTexts(sections))
            /\ pc' = IF text' # << >> THEN "score" ELSE "fallback"
    /\ UNCHANGED <<sections, title, raw, scores, label>>

Score ==
    /\ pc = "score"
    /\ trail' = Append(trail, "score")
    /\ raw' = RawScores(text)
    /\ scores' = Thresholded(raw')
    /\ label' = top(scores')
    /\ pc' = "fallback"
    /\ UNCHANGED <<sections, title, text>>

Fallback ==
    /\ pc = "fallback"
    /\ trail' = Append(trail, "fallback")
    /\ LET m == matches(FALLBACK_REGEX, title) IN
       IF NoLabelYet(label) /\ m[1] # 0
       THEN label' = <<Len(CATEGORIES), m[2]>>
       ELSE UNCHANGED label
    /\ pc' = "done"
    /\ UNCHANGED <<sections, title, text, raw, scores>>

Next == TitleStage \/ Gate \/ BuildText \/ Score \/ Fallback

Spec == Init /\ [][Next]_vars

SpecNames == InitNames /\ [][Next]_vars

SpecTexts == InitTexts /\ [][Next]_vars

-----------------------------------------------------------------------------
(* Properties *)

\* the stage named a has run
Ran(a) == \E i \in 1..Len(trail) : trail[i] = a

\* phrase occurs in s as a whole phrase (a word boundary on each side)
WholeWord(phrase, s) ==
    \E i \in 1..Len(s) :
        /\ i + Len(phrase) - 1 <= Len(s)
        /\ SubSeq(s, i, i + Len(phrase) - 1) = phrase
        /\ Boundary(s, i - 1)
        /\ Boundary(s, i + Len(phrase) - 1)

\* the title mentions mathematical, computer or forecast, possibly inside a word
TitleMentionsModel ==
    \E kw \in {"mathematical", "computer", "forecast"} : Contains(title, <<kw>>)

\* C1: when label returns through the fallback stage with no category scored
\* above 0 and the title text contains mathematical, computer or forecast, the
\* returned level is the number of categories (9) and the evidence is present.
C1_FallbackLabels ==
    (/\ pc = "done"
     /\ Ran("fallback")
     /\ \A k \in 1..Len(scores) : scores[k][1] = 0
     /\ TitleMentionsModel)
    => (label[1] = 9 /\ label[2] # None)

\* C2: whenever label returns, the level is in 0..9 and the evidence is None
\* exactly when the level is 0; a present evidence string is not empty.
C2_LabelShape ==
    pc = "done" =>
        /\ label[1] \in 0..9
        /\ (label[2] = None) <=> (label[1] = 0)
        /\ label[2] # None => Val(label[2]) # << >>

C2_Witness == pc = "done" /\ Ran("score") /\ label[1] \in 1..9

\* the title phrases of levels 1..8, as the claim lists them
C3_TitlePhrases ==
    << { <<"systematic", " ", "review">>, <<"meta", "-", "analysis">> },
       { <<"randomized", " ", "control">> },
       { <<"pseudo", "-", "randomized">> },
       { <<"retrospective", " ", "cohort">> },
       { <<"matched", " ", "case">> },
       { <<"cross", "-", "sectional">>, <<"cross", "sectional">> },
       { <<"time", "-", "series">>, <<"time", "series">> },
       { <<"prevalence">> } >>

C3_Levels(t) ==
    {k \in 1..Len(C3_TitlePhrases) : \E ph \in C3_TitlePhrases[k] : WholeWord(ph, t)}

C3_NamedTitle(section) == section.name \in {Some(<<"title">>), Some(<<"Title">>)}

\* C3: the title text is the join of the sections named "title" in any case;
\* when some title phrase occurs in it, label returns straight from the title
\* stage with the lowest level whose phrase occurs, whatever the other
\* sections hold; otherwise the title stage returns nothing.
C3_TitleOrder ==
    (trail # << >> /\ ~(pc = "raised" /\ Len(trail) = 1)) =>
        LET named == {i \in 1..Len(sections) : C3_NamedTitle(sections[i])}
            t == Normalise(TextsAt(sections, named, 1))
            m == C3_Levels(t)
        IN /\ title = t
           /\ m # {} => /\ pc = "done"
                        /\ trail = <<"title">>
                        /\ label[1] \in m
                        /\ \A k \in m : label[1] <= k
                        /\ label[2] # None
           /\ m = {} => (pc = "gate" \/ Len(trail) >= 2)

C3_Witness ==
    /\ pc = "done"
    /\ label[1] = 1
    /\ WholeWord(<<"systematic", " ", "review">>, title)
    /\ WholeWord(<<"randomized", " ", "control">>, title)
    /\ \E i \in 1..Len(sections) :
          sections[i] = Section(None, Some(<<"prevalence", " ", "result">>))

\* C4: label never raises, whatever names and texts are missing.
C4_NeverRaises == pc # "raised"

C5_Mentions(o) ==
    /\ o # None
    /\ \/ Contains(Lower(Val(o)), <<"method">>)
       \/ Contains(Lower(Val(o)), <<"result">>)

C5_GateOpen ==
    \E i \in 1..Len(sections) : C5_Mentions(sections[i].name) \/ C5_Mentions(sections[i].text)

\* C5: once the title stage has matched nothing, an article with no "method"
\* or "result" in any section name or text is never scored and returns level
\* 0, or 9 when the title mentions mathematical/computer/forecast; an article
\* with one such section goes on to build the scoring text.
C5_AcceptanceGate ==
    Ran("gate") =>
        /\ ~C5_GateOpen =>
              /\ pc # "text"
              /\ ~Ran("text")
              /\ ~Ran("score")
              /\ pc = "done" => (label[1] = 0 \/ (label[1] = 9 /\ TitleMentionsModel))
        /\ C5_GateOpen => (pc = "text" \/ Ran("text"))

C5_Witness ==
    /\ pc = "done"
    /\ ~C5_GateOpen
    /\ label[1] = 0
    /\ \E i \in 1..Len(sections) :
          sections[i] = Section(None, Some(<<"computer", " ", "model">>))

\* name holds the token w ("reference" is a token of "references")
C6_HasWord(name, w) == \E i \in 1..Len(name) : name[i] = w

\* "results" ends before position i, anywhere earlier in the name
C6_ResultsEarlier(name, i) ==
    \E j \in 1..(i - 2) : name[j] = "result" /\ name[j + 1] = "s"

\* "results" ends before position i, earlier on the same line of the name
C6_ResultsEarlierOnLine(name, i) ==
    \E j \in 1..(i - 2) :
        /\ name[j] = "result"
        /\ name[j + 1] = "s"
        /\ \A k \in (j + 2)..(i - 1) : name[k] # "\n"

\* the names the claim says LOE.filter rejects
C6_Rejected(name) ==
    \/ C6_HasWord(name, "introduction")
    \/ C6_HasWord(name, "background")
    \/ C6_HasWord(name, "reference")
    \/ \E i \in 1..Len(name) : name[i] = "discussion" /\ ~C6_ResultsEarlier(name, i)

C6_Passes(name) ==
    /\ ~C6_HasWord(name, "introduction")
    /\ ~C6_HasWord(name, "background")
    /\ ~C6_HasWord(name, "reference")
    /\ \A i \in 1..Len(name) : name[i] = "discussion" => C6_ResultsEarlierOnLine(name, i)

C6_Kept(section) ==
    \/ section.name = None
    \/ Val(section.name) = << >>
    \/ C6_Passes(Lower(Val(section.name)))

ResultsAndDiscussion == <<"result", "s", " ", "and", " ", "discussion">>

\* C6: the scoring text is the join, in input order, of the texts of the
\* sections whose name is absent, empty or passes the filter; a lower-cased
\* name passes when it holds none of introduction, background, reference and
\* every "discussion" in it has a "results" earlier on the same line.  A name
\* with a "discussion" that has no "results" earlier is left out, and the
\* keywords of a left-out section count for no category.
C6_SectionFilter ==
    (Ran("text") /\ pc # "raised") =>
        /\ text = Normalise(TextsAt(sections, {i \in 1..Len(sections) : C6_Kept(sections[i])}, 1))
        /\ C6_Rejected(Lower(Val(sections[1].name))) =>
              /\ text = Normalise(TextsAt(sections,
                                          {i \in 2..Len(sections) : C6_Kept(sections[i])}, 1))
              /\ Ran("score") => \A k \in 4..6 : raw[k][1] = 0
        /\ Val(sections[1].name) \in {ResultsAndDiscussion, <<"appendix">>} =>
              (pc = "score" \/ (Ran("score") /\ \A k \in 4..6 : raw[k][1] = 2))

C6_Witness ==
    /\ pc = "done"
    /\ sections[1].name = Some(ResultsAndDiscussion)
    /\ Ran("score")
    /\ label[1] = 6

\* the minimum of each category, in list order, as the claim gives them
C7_Minimum == <<1, 1, 2, 2, 2, 2, 3, 3, 4>>

\* C7: after scoring, a category whose raw count is below its minimum holds
\* (0, None) and any other keeps its raw result; the category that top
\* returns has a raw count of at least its minimum.
C7_Thresholds ==
    Ran("score") =>
        /\ Len(raw) = Len(C7_Minimum)
        /\ Len(scores) = Len(C7_Minimum)
        /\ \A k \in 1..Len(C7_Minimum) :
              /\ raw[k][1] < C7_Minimum[k] => scores[k] = <<0, None>>
              /\ raw[k][1] >= C7_Minimum[k] => scores[k] = raw[k]
        /\ (trail[Len(trail)] = "score" /\ label[1] # 0) =>
              LET k == Len(C7_Minimum) + 1 - label[1] IN raw[k][1] >= C7_Minimum[k]

C7_Witness ==
    /\ pc = "done"
    /\ Ran("score")
    /\ raw[5][1] = 1
    /\ \A k \in (1..9) \ {5} : raw[k][1] = 0
    /\ label = <<0, None>>

\* C8: right after scoring, the label is (0, None) when every thresholded
\* count is 0; otherwise it is (number of categories - index, evidence) of
\* the first category, in list order, that attains the maximum count.
C8_TopSelection ==
    (trail # << >> /\ trail[Len(trail)] = "score") =>
        LET n == Len(scores) IN
        /\ n = 9
        /\ IF \A i \in 1..n : scores[i][1] = 0
           THEN label = <<0, None>>
           ELSE \E i \in 1..n :
                   /\ \A j \in 1..n : scores[j][1] <= scores[i][1]
                   /\ \A j \in 1..(i - 1) : scores[j][1] < scores[i][1]
                   /\ label = <<10 - i, scores[i][2]>>

C8_Witness ==
    /\ trail # << >>
    /\ trail[Len(trail)] = "score"
    /\ scores[5][1] = 2
    /\ scores[6][1] = 2
    /\ scores[5][2] # scores[6][2]
    /\ \A k \in 1..9 : scores[k][1] <= 2
    /\ label = <<5, scores[5][2]>>

\* the positions of s where some alternative of pat matches
C9_Hits(pat, s) ==
    {i \in 1..Len(s) : \E a \in 1..Len(pat) : AltMatchesAt(pat[a], s, i)}

\* the substring matched at hit position i
C9_KeyAt(pat, s, i) == pat[FirstAlt(pat, s, i)].toks

\* the first position at which key is the matched substring
C9_FirstSeen(pat, s, key) ==
    CHOOSE i \in C9_Hits(pat, s) :
        /\ C9_KeyAt(pat, s, i) = key
        /\ \A j \in C9_Hits(pat, s) : C9_KeyAt(pat, s, j) = key => i <= j

RECURSIVE C9_Sum(_)
C9_Sum(items) == IF Len(items) = 0 THEN 0 ELSE items[1][2] + C9_Sum(Tail(items))

C9_Shape(pat, s, m) ==
    LET hits == C9_Hits(pat, s) IN
    /\ m[1] = Cardinality(hits)
    /\ (m[2] = None) <=> (m[1] = 0)
    /\ m[2] # None =>
          LET items == Val(m[2]) IN
          /\ Len(items) > 0
          /\ C9_Sum(items) = m[1]
          /\ \A i \in hits : \E a \in 1..Len(items) : items[a][1] = C9_KeyAt(pat, s, i)
          /\ \A a \in 1..Len(items) :
                items[a][2] = Cardinality({i \in hits : C9_KeyAt(pat, s, i) = items[a][1]})
          /\ \A a, b \in 1..Len(items) :
                a < b =>
                   /\ items[a][1] # items[b][1]
                   /\ items[a][2] >= items[b][2]
                   /\ items[a][2] = items[b][2] =>
                         C9_FirstSeen(pat, s, items[a][1]) < C9_FirstSeen(pat, s, items[b][1])

\* C9: every raw category result (count, evidence) has count = the number of
\* matches in the scoring text = the sum of the listed frequencies; evidence
\* lists each distinct matched substring once with its frequency, in
\* non-increasing order, ties in first-seen order; evidence is None exactly
\* when count is 0; and the empty pattern gives (0, None).
C9_MatchesShape ==
    Ran("score") =>
        /\ \A k \in 1..Len(CATEGORIES) : C9_Shape(CATEGORIES[k][1], text, raw[k])
        /\ matches(<< >>, text) = <<0, None>>

\* sorting moved a keyword seen later in front of one seen earlier
C9_Witness ==
    /\ Ran("score")
    /\ raw[6][2] # None
    /\ LET items == Val(raw[6][2])
           pat == CATEGORIES[6][1]
       IN /\ Len(items) = 2
          /\ items[1][2] = 2
          /\ items[2][2] = 1
          /\ C9_FirstSeen(pat, text, items[2][1]) < C9_FirstSeen(pat, text, items[1][1])

C10_Mentions(section) == C5_Mentions(section.name) \/ C5_Mentions(section.text)

C10_Scored(section) == C3_NamedTitle(section) \/ C6_Kept(section)

\* "method"/"result" occurs, and only in sections left out of the scoring text
C10_OnlyExcludedMention ==
    /\ \E i \in 1..Len(sections) : ~C10_Scored(sections[i]) /\ C10_Mentions(sections[i])
    /\ \A i \in 1..Len(sections) : C10_Scored(sections[i]) => ~C10_Mentions(sections[i])

C10_TitleHolds(phrase) ==
    \E i \in 1..Len(sections) :
        /\ C3_NamedTitle(sections[i])
        /\ sections[i].text # None
        /\ WholeWord(phrase, Lower(Val(sections[i].text)))

\* C10: the gate opens on a "method"/"result" found only in sections that
\* are left out of the scoring text; the scoring text is the join of the
\* nameless, title and filter-passing sections only; and a category keyword
\* of the title is counted when the full text is scored.
C10_GateVersusScoring ==
    /\ (Ran("gate") /\ C10_OnlyExcludedMention) => (pc = "text" \/ Ran("text"))
    /\ (Ran("text") /\ pc # "raised") =>
          text = Normalise(TextsAt(sections, {i \in 1..Len(sections) : C10_Scored(sections[i])}, 1))
    /\ (Ran("score") /\ C10_TitleHolds(<<"computer", " ", "model">>)) => raw[1][1] >= 1

C10_Witness ==
    /\ pc = "done"
    /\ C10_OnlyExcludedMention
    /\ C10_TitleHolds(<<"computer", " ", "model">>)
    /\ Ran("score")
    /\ label[1] = 9

====
